---- MODULE Spec2Model ----
(***************************************************************************)
(* rust-docker-overlay: the namespace-and-mount orchestrator.              *)
(*                                                                         *)
(* Three specifications share the state below.                             *)
(*   Spec      the session orchestrator of spec section 4.5 (two forks,    *)
(*             overlay + bind, image cache).  Its helpers are translated   *)
(*             from src/src/docker_helper.rs, src/src/namespace_helper.rs  *)
(*             and src/src/cli.rs; the lifecycle that calls them is not in *)
(*             src/src/main.rs and is modelled from the specification.     *)
(*   SpecMain  main() as it stands in src/src/main.rs:309-481.             *)
(*   SpecLib   the helper functions of cli.rs, main.rs, docker_helper.rs   *)
(*             and utils.rs, each called once on an input of its own.      *)
(***************************************************************************)
EXTENDS Integers, Sequences, FiniteSets, TLC

VARIABLES
    run,        \* number of the current invocation
    args,       \* cli::Args of the current invocation
    container,  \* what the Docker daemon reports for the target container
    image,      \* the image tar the daemon exports
    supported,  \* SupportedFilesystems: "ok" | "err" | "no_overlay"
    pc,         \* position of each process
    ns,         \* namespace membership of each process
    exitCode,   \* exit status of each process: NoCode while it runs, then "0", "1", "101" (panic) or "killed"
    hostMounts, \* mount table of the host mount namespace (a list, in mount order)
    privMounts, \* mount table of the mount namespace created by unshare
    events,     \* what this invocation did so far, in order
    info,       \* ContainerInfo (NoInfo before inspection)
    rootfs,     \* work_dir/rootfs: "absent" | "empty" | "partial" | "image"
    cacheFile,  \* cache_dir/<filename>: "absent" | "partial" | "complete"
    writers,    \* who is reading or writing rootfs/ right now
    rt,         \* async runtime: "running" | "shutdown"
    threads,    \* OS threads of the top-level process
    fds,        \* descriptors open in the top-level process besides stdio
    call        \* the helper function called last on its own: name, argument, result

vars == <<run, args, container, image, supported, pc, ns, exitCode, hostMounts,
          privMounts, events, info, rootfs, cacheFile, writers, rt, threads, fds, call>>

(* ------------------------------ bounds -------------------------------- *)

MaxRuns == 2

(* --------------------------- paths and inputs ------------------------- *)

\* A path is a sequence of tokens; "/" and ":" are tokens of their own.
WorkDir == <<"/", "w">>

MergedFs == WorkDir \o <<"/", "mergedfs">>

BindPoint == MergedFs \o <<"/", "mnt", "/", "container">>

ForeignPoint == <<"/", "data">>

ContainerMerged == <<"/", "docker", "/", "AAA", "/", "merged">>

StartsWith(p, prefix) ==
    /\ Len(p) >= Len(prefix)
    /\ SubSeq(p, 1, Len(prefix)) = prefix

Procs == {"top", "c1", "c2"}

NoCode == "none"

NoInfo == [none |-> TRUE]

NoCall == [fn |-> "none"]

Args == [pull : BOOLEAN, cache : BOOLEAN, unmount_on_exit : BOOLEAN]

\* What docker.container_info can report.
CtrRunning ==
    [Exists |-> TRUE, Running |-> TRUE, Driver |-> "overlay2", Pid |-> 7,
     Data |-> [k \in {"MergedDir"} |-> ContainerMerged]]

CtrStopped == [CtrRunning EXCEPT !.Running = FALSE]

CtrAufs == [CtrRunning EXCEPT !.Driver = "aufs"]

CtrNoMergedDir ==
    [Exists |-> TRUE, Running |-> TRUE, Driver |-> "overlay2", Pid |-> 7,
     Data |-> [k \in {"LowerDir"} |-> ContainerMerged]]

CtrMissing == [CtrRunning EXCEPT !.Exists = FALSE]

CtrStoppedAufs == [CtrRunning EXCEPT !.Running = FALSE, !.Driver = "aufs"]

CtrOther ==
    [Exists |-> TRUE, Running |-> TRUE, Driver |-> "overlay2", Pid |-> 9,
     Data |-> [k \in {"MergedDir", "LowerDir"} |->
                  IF k = "MergedDir" THEN <<"/", "docker", "/", "BBB", "/", "merged">>
                  ELSE <<"/", "docker", "/", "BBB", "/", "diff">>]]

Containers ==
    {CtrRunning, CtrStopped, CtrAufs, CtrNoMergedDir, CtrMissing, CtrStoppedAufs, CtrOther}

(* ------------------------ exported image tars ------------------------- *)

TarLayer == "application/vnd.oci.image.layer.v1.tar"

TarLayerEncrypted == "application/vnd.oci.image.layer.v1.tar+encrypted"

Blob(h) == <<"blobs", "/", "sha256", "/", h>>

Key(h) == <<"sha256", ":", h>>

ManifestOf(layers, sources) == [Layers |-> layers, LayerSources |-> sources]

ImgGood ==
    [manifest |-> << ManifestOf(<<Blob("a"), Blob("b")>>,
                                [k \in {Key("a"), Key("b")} |-> TarLayer]) >>,
     blobs |-> {Blob("a"), Blob("b"), Blob("cfg")}]

ImgNoManifest == [manifest |-> << >>, blobs |-> {Blob("a")}]

ImgEncryptedFirst ==
    [manifest |-> << ManifestOf(<<Blob("a"), Blob("b")>>,
                                [k \in {Key("a"), Key("b")} |->
                                    IF k = Key("a") THEN TarLayerEncrypted ELSE TarLayer]) >>,
     blobs |-> {Blob("a"), Blob("b")}]

ImgBlobMissing ==
    [manifest |-> << ManifestOf(<<Blob("a"), Blob("b")>>,
                                [k \in {Key("a"), Key("b")} |-> TarLayer]) >>,
     blobs |-> {Blob("a")}]

Images == {ImgGood, ImgNoManifest, ImgEncryptedFirst, ImgBlobMissing}

(* ---------------------- docker_helper.rs: inspect --------------------- *)

Ok(v) == [ok |-> TRUE, val |-> v]

Err(e) == [ok |-> FALSE, err |-> e]

get_container_info_no_driver_check(c) ==
    IF ~c.Exists THEN Err("inspect container")
    ELSE IF ~c.Running THEN Err("container is not running")
    ELSE IF "MergedDir" \notin DOMAIN c.Data
         THEN Err("expect MergedDir in GraphDriver setting")
    ELSE Ok([pid |-> c.Pid, merged_dir |-> c.Data["MergedDir"]])

get_container_info_no_running_check(c) ==
    IF ~c.Exists THEN Err("inspect container")
    ELSE IF c.Driver # "overlay2"
         THEN Err(<<"only overlay2 driver is supported, found: ", c.Driver>>)
    ELSE IF "MergedDir" \notin DOMAIN c.Data
         THEN Err("expect MergedDir in GraphDriver setting")
    ELSE Ok([pid |-> c.Pid, merged_dir |-> c.Data["MergedDir"]])

get_container_info(c) ==
    IF ~c.Exists THEN Err("inspect container")
    ELSE IF ~c.Running THEN Err("container is not running")
    ELSE IF c.Driver # "overlay2"
         THEN Err(<<"only overlay2 driver is supported, found: ", c.Driver>>)
    ELSE IF "MergedDir" \notin DOMAIN c.Data
         THEN Err("expect MergedDir in GraphDriver setting")
    ELSE Ok([pid |-> c.Pid, merged_dir |-> c.Data["MergedDir"]])

(* ------------------------ utils.rs: extract_archive ------------------- *)

\* A directory tree is a function from paths below its root (sequences of
\* names) to nodes: [type |-> "dir", mode], [type |-> "file", mode, data] or
\* [type |-> "symlink", target].  A link target is [to |-> a path below the
\* root, bytes |-> the length of its text].
EmptyTree == [p \in {} |-> "none"]

Parent(p) == SubSeq(p, 1, Len(p) - 1)

Put(fs, p, node) == [q \in DOMAIN fs \cup {p} |-> IF q = p THEN node ELSE fs[q]]

Remove(fs, p) == [q \in DOMAIN fs \ {p} |-> fs[q]]

IsDir(fs, p) == p = << >> \/ (p \in DOMAIN fs /\ fs[p].type = "dir")

\* Path::exists follows symbolic links: a link whose target is missing does not exist.
RECURSIVE PathExists(_, _, _)
PathExists(fs, p, hops) ==
    IF p = << >> THEN TRUE
    ELSE IF p \notin DOMAIN fs THEN FALSE
    ELSE IF fs[p].type # "symlink" THEN TRUE
    ELSE IF hops = 0 THEN FALSE
    ELSE PathExists(fs, fs[p].target.to, hops - 1)

\* File::create(dst_path), set_permissions(header mode), copy.
ExtractRegular(fs, e) ==
    LET at == IF e.path \in DOMAIN fs /\ fs[e.path].type = "symlink"
              THEN fs[e.path].target.to ELSE e.path
    IN  IF at = << >> \/ ~IsDir(fs, Parent(at)) THEN [result |-> "err", fs |-> fs]
        ELSE IF at \in DOMAIN fs /\ fs[at].type # "file" THEN [result |-> "err", fs |-> fs]
        ELSE [result |-> "ok",
              fs |-> Put(fs, at, [type |-> "file", mode |-> e.mode, data |-> e.data])]

\* create_dir_all(dst_path): the missing ancestors are created as well.
RECURSIVE CreateDirAll(_, _)
CreateDirAll(fs, p) ==
    IF p = << >> THEN [result |-> "ok", fs |-> fs]
    ELSE IF p \in DOMAIN fs
         THEN [result |-> IF fs[p].type = "dir" THEN "ok" ELSE "err", fs |-> fs]
    ELSE LET up == CreateDirAll(fs, Parent(p))
         IN  IF up.result # "ok" THEN up
             ELSE [result |-> "ok", fs |-> Put(up.fs, p, [type |-> "dir", mode |-> 493])]

ExtractDirectory(fs, e) ==
    LET made == CreateDirAll(fs, e.path)
    IN  IF made.result # "ok" THEN [result |-> "err", fs |-> fs]
        ELSE IF e.path = << >> THEN made
        ELSE [result |-> "ok", fs |-> Put(made.fs, e.path, [type |-> "dir", mode |-> e.mode])]

\* The linkname field of a tar header holds 100 bytes.
LinkNameField == 100

\* to_string_lossy(): bytes that are not UTF-8 become U+FFFD, three bytes each.
ToStringLossy(target) ==
    IF target.utf8 THEN target
    ELSE [to |-> <<"U+FFFD">>, bytes |-> target.bytes + 2, utf8 |-> TRUE]

\* header().link_name()?.unwrap() reads the linkname field of the header block,
\* not a long link name sent ahead of it, and is None when the field is empty;
\* then remove_file if dst_path.exists(), then symlink.
ExtractLink(fs, e) ==
    IF e.link.bytes = 0 THEN [result |-> "panic", fs |-> fs]
    ELSE IF PathExists(fs, e.path, Cardinality(DOMAIN fs)) /\ IsDir(fs, e.path)
         THEN [result |-> "err", fs |-> fs]
    ELSE LET cleared == IF PathExists(fs, e.path, Cardinality(DOMAIN fs))
                        THEN Remove(fs, e.path) ELSE fs
         IN  IF e.path \in DOMAIN cleared \/ ~IsDir(cleared, Parent(e.path))
             THEN [result |-> "err", fs |-> cleared]
             ELSE [result |-> "ok",
                   fs |-> Put(cleared, e.path,
                              [type |-> "symlink", target |-> ToStringLossy(e.link)])]

ExtractEntry(fs, e) ==
    CASE e.type = "Regular" -> ExtractRegular(fs, e)
      [] e.type = "Directory" -> ExtractDirectory(fs, e)
      [] e.type \in {"Symlink", "Link"} -> ExtractLink(fs, e)
      [] OTHER -> [result |-> "ok", fs |-> fs]

\* The entries are extracted in archive order; the first failure ends the call.
RECURSIVE extract_archive(_, _)
extract_archive(entries, fs) ==
    IF entries = << >> THEN [result |-> "ok", fs |-> fs]
    ELSE LET first == ExtractEntry(fs, Head(entries))
         IN  IF first.result # "ok" THEN first
             ELSE extract_archive(Tail(entries), first.fs)

DirEntry(p, mode) == [path |-> p, type |-> "Directory", mode |-> mode]

FileEntry(p, mode, data) == [path |-> p, type |-> "Regular", mode |-> mode, data |-> data]

LinkEntry(p, link) == [path |-> p, type |-> "Symlink", mode |-> 511, link |-> link]

\* The tar of each layer blob of the exported images.
BlobEntries(blob) ==
    CASE blob = <<"blobs", "/", "sha256", "/", "a">> ->
             <<DirEntry(<<"etc">>, 493), FileEntry(<<"etc", "passwd">>, 420, "a"),
               DirEntry(<<"bin">>, 493), FileEntry(<<"bin", "sh">>, 493, "a")>>
      [] blob = <<"blobs", "/", "sha256", "/", "b">> ->
             <<DirEntry(<<"etc">>, 493), FileEntry(<<"etc", "passwd">>, 420, "b"),
               FileEntry(<<"etc", "hosts">>, 420, "b")>>
      [] blob = <<"blobs", "/", "sha256", "/", "c">> ->
             <<DirEntry(<<"opt">>, 493), FileEntry(<<"opt", "tool">>, 493, "c")>>
      [] OTHER -> << >>

(* ------------------ docker_helper.rs: export_overlay_image ------------ *)

\* layer.splitn(2, '/').nth(1): what follows the first "/" (None without one).
RECURSIVE AfterFirstSlash(_)
AfterFirstSlash(p) ==
    IF p = << >> THEN << >>
    ELSE IF Head(p) = "/" THEN Tail(p)
    ELSE AfterFirstSlash(Tail(p))

\* .replace("/", ":"): every "/" becomes ":".
ReplaceSlashes(p) == [i \in 1..Len(p) |-> IF p[i] = "/" THEN ":" ELSE p[i]]

\* Only the first '/' of the whole path is replaced.
LayerKeyFirstSlashOnly(layer) ==
    LET first == CHOOSE i \in 1..Len(layer) :
                     layer[i] = "/" /\ \A j \in 1..(i - 1) : layer[j] # "/"
    IN  [i \in 1..Len(layer) |-> IF i = first THEN ":" ELSE layer[i]]

LayerKey(layer) == ReplaceSlashes(AfterFirstSlash(layer))

\* MediaType::from(&str) = MediaType::ImageLayer
IsImageLayer(media_type) == media_type = TarLayer

\* The check of one layer before its extraction (docker_helper.rs:172-193).
LayerCheck(m, blobs, layer) ==
    IF layer \notin blobs THEN "layer blob not found"
    ELSE IF LayerKey(layer) \notin DOMAIN m.LayerSources THEN "layer info not found"
    ELSE IF ~IsImageLayer(m.LayerSources[LayerKey(layer)]) THEN "unsupported layer type"
    ELSE "ok"

\* Each layer is extracted before it is checked.
RECURSIVE LayerLoopExtractThenCheck(_, _, _, _, _)
LayerLoopExtractThenCheck(m, blobs, k, applied, fs) ==
    IF k > Len(m.Layers)
    THEN [result |-> "ok", extracted |-> k - 1, applied |-> applied, fs |-> fs]
    ELSE LET layer == extract_archive(BlobEntries(m.Layers[k]), fs)
         IN  IF layer.result # "ok"
             THEN [result |-> "extract failed", extracted |-> k - 1,
                   applied |-> applied, fs |-> layer.fs]
             ELSE IF LayerCheck(m, blobs, m.Layers[k]) # "ok"
             THEN [result |-> LayerCheck(m, blobs, m.Layers[k]), extracted |-> k - 1,
                   applied |-> applied, fs |-> layer.fs]
             ELSE LayerLoopExtractThenCheck(m, blobs, k + 1,
                                            Append(applied, m.Layers[k]), layer.fs)

\* The loop over manifest.layers from layer k on, export_dir holding fs: how it
\* ends, the number of layers extracted, those layers in order and export_dir.
RECURSIVE LayerLoop(_, _, _, _, _)
LayerLoop(m, blobs, k, applied, fs) ==
    IF k > Len(m.Layers)
    THEN [result |-> "ok", extracted |-> k - 1, applied |-> applied, fs |-> fs]
    ELSE IF LayerCheck(m, blobs, m.Layers[k]) # "ok"
         THEN [result |-> LayerCheck(m, blobs, m.Layers[k]), extracted |-> k - 1,
               applied |-> applied, fs |-> fs]
    ELSE LET layer == extract_archive(BlobEntries(m.Layers[k]), fs)
         IN  IF layer.result # "ok"
             THEN [result |-> "extract failed", extracted |-> k - 1,
                   applied |-> applied, fs |-> layer.fs]
             ELSE LayerLoop(m, blobs, k + 1, Append(applied, m.Layers[k]), layer.fs)

\* The layers are taken from the last manifest entry.
ExportOutcomeOfLastManifest(img) ==
    IF Len(img.manifest) = 0
    THEN [result |-> "no manifest found", extracted |-> 0, applied |-> << >>,
          fs |-> EmptyTree]
    ELSE LayerLoop(img.manifest[Len(img.manifest)], img.blobs, 1, << >>, EmptyTree)

\* From the parsed tar to the end of export_overlay_image (docker_helper.rs:162-200).
ExportOutcome(img) ==
    IF Len(img.manifest) = 0
    THEN [result |-> "no manifest found", extracted |-> 0, applied |-> << >>,
          fs |-> EmptyTree]
    ELSE LayerLoop(img.manifest[1], img.blobs, 1, << >>, EmptyTree)

\* rootfs/ after the layer loop.
RootfsAfterExport(img) ==
    IF ExportOutcome(img).result = "ok" THEN "image"
    ELSE IF ExportOutcome(img).extracted > 0 THEN "partial"
    ELSE "empty"

(* -------------------------- kernel: namespaces ------------------------ *)

HostNs ==
    [mnt |-> "host", pid |-> "host", pid_for_children |-> "host", net |-> "host",
     ipc |-> "host", uts |-> "host", cgroup |-> "host"]

\* CLONE_NEWCGROUP | CLONE_NEWIPC | CLONE_NEWNET | CLONE_NEWPID | CLONE_NEWUTS
AttachFlagsWithoutPid == {"CGROUP", "IPC", "NET", "UTS"}

AttachFlags == {"CGROUP", "IPC", "NET", "PID", "UTS"}

\* setns(pidfd, flags): joins the target's namespaces of the kinds in flags; for
\* the PID namespace only the children of the caller are moved.
SetnsEffect(n, flags) ==
    [mnt |-> IF "NS" \in flags THEN "container" ELSE n.mnt,
     pid |-> n.pid,
     pid_for_children |-> IF "PID" \in flags THEN "container" ELSE n.pid_for_children,
     net |-> IF "NET" \in flags THEN "container" ELSE n.net,
     ipc |-> IF "IPC" \in flags THEN "container" ELSE n.ipc,
     uts |-> IF "UTS" \in flags THEN "container" ELSE n.uts,
     cgroup |-> IF "CGROUP" \in flags THEN "container" ELSE n.cgroup]

\* fork: the child is a member of its parent's pid_for_children namespace.
ForkNs(n) == [n EXCEPT !.pid = n.pid_for_children]

\* unshare(CLONE_NEWNS): a new mount namespace, a copy of the caller's.
UnshareMnt(n) == [n EXCEPT !.mnt = "private"]

(* --------------------- namespace_helper.rs: enter_namespace ----------- *)

\* How the three system calls of enter_namespace can end.
SysOutcomes ==
    {[pidfd_open |-> FALSE, setns |-> TRUE, close |-> TRUE],
     [pidfd_open |-> TRUE, setns |-> FALSE, close |-> TRUE],
     [pidfd_open |-> TRUE, setns |-> TRUE, close |-> FALSE],
     [pidfd_open |-> TRUE, setns |-> TRUE, close |-> TRUE]}

\* A failing pidfd_open opens nothing; after a failing setns the function returns
\* with the pidfd open; close(2) releases the descriptor also when it reports an error.
enter_namespace(n, f, ns_flags, sys) ==
    IF ~sys.pidfd_open
    THEN [ok |-> FALSE, ns |-> n, fds |-> f, called |-> FALSE]
    ELSE IF ~sys.setns
    THEN [ok |-> FALSE, ns |-> n, fds |-> f \cup {"pidfd"}, called |-> FALSE]
    ELSE IF ~sys.close
    THEN [ok |-> FALSE, ns |-> SetnsEffect(n, ns_flags), fds |-> f, called |-> TRUE]
    ELSE [ok |-> TRUE, ns |-> SetnsEffect(n, ns_flags), fds |-> f, called |-> TRUE]

(* ------------------------------ mount tables -------------------------- *)

MountEntry(point, fstype) == [point |-> point, fstype |-> fstype]

ForeignMount == MountEntry(ForeignPoint, "ext4")

\* A mount of somebody else at /w2, a sibling of work_dir whose name begins alike.
SiblingMount == MountEntry(<<"/", "w2">>, "tmpfs")

\* What /proc/self/mounts can hold when an invocation starts: the mounts of
\* others, and in between them what crashed invocations left under work_dir.
InitialMountTables ==
    {<<ForeignMount, SiblingMount>>,
     <<ForeignMount, MountEntry(MergedFs, "overlay"), SiblingMount,
       MountEntry(BindPoint, "bind")>>,
     <<MountEntry(BindPoint, "bind"), ForeignMount, MountEntry(MergedFs, "overlay"),
       SiblingMount>>,
     <<ForeignMount, SiblingMount, MountEntry(MergedFs, "overlay"),
       MountEntry(MergedFs, "overlay"), MountEntry(BindPoint, "bind")>>}

IsMounted(tab, point) == \E i \in 1..Len(tab) : tab[i].point = point

\* umount(point): the topmost mount at point goes.
Unmount(tab, point) ==
    LET top == CHOOSE i \in 1..Len(tab) :
                   /\ tab[i].point = point
                   /\ \A j \in (i + 1)..Len(tab) : tab[j].point # point
    IN  SubSeq(tab, 1, top - 1) \o SubSeq(tab, top + 1, Len(tab))

\* Only the mount points directly below work_dir are detached.
clear_stale_top_level_only(tab, work_dir) ==
    SelectSeq(tab, LAMBDA m : ~(StartsWith(m.point, work_dir)
                                  /\ Len(m.point) = Len(work_dir) + 2))

\* The first stale entry is detached and the enumeration stops.
clear_stale_first_match(tab, work_dir) ==
    IF \E i \in 1..Len(tab) : StartsWith(tab[i].point, work_dir)
    THEN LET first == CHOOSE i \in 1..Len(tab) :
                          /\ StartsWith(tab[i].point, work_dir)
                          /\ \A j \in 1..(i - 1) : ~StartsWith(tab[j].point, work_dir)
         IN  SubSeq(tab, 1, first - 1) \o SubSeq(tab, first + 1, Len(tab))
    ELSE tab

\* clear_stale(work_dir): every entry whose mount point begins with work_dir is
\* detached, in discovery order; the other entries stay as they are.
clear_stale(tab, work_dir) ==
    SelectSeq(tab, LAMBDA m : ~StartsWith(m.point, work_dir))

(* ------------------------- the lifecycle of a run --------------------- *)

LifecycleBindFirst ==
    <<"assert_overlay", "inspect", "clear_stale", "layout", "materialize", "rt_shutdown",
      "mount_bind", "mount_overlay", "write_init", "setns", "fork1", "wait1",
      "cache_write", "umount_bind", "umount_overlay", "exit">>

\* The steps of the top-level process, in order (spec section 4.5, steps 1-10).
Lifecycle ==
    <<"assert_overlay", "inspect", "clear_stale", "layout", "materialize", "rt_shutdown",
      "mount_overlay", "mount_bind", "write_init", "setns", "fork1", "wait1",
      "cache_write", "umount_bind", "umount_overlay", "exit">>

StepAfter(s) ==
    LET i == CHOOSE k \in 1..Len(Lifecycle) : Lifecycle[k] = s
    IN  IF i = Len(Lifecycle) THEN "done" ELSE Lifecycle[i + 1]

Terminated == {"done", "aborted", "killed"}

\* An event: what was done, by which process, in which mount namespace, and the
\* PID namespace a child forked now would be in.
Ev(e, p) == [e |-> e, by |-> p, mnt |-> ns[p].mnt, kids |-> ns[p].pid_for_children]

Emit(e, p) == events' = Append(events, Ev(e, p))

Goto(p, s) == pc' = [pc EXCEPT ![p] = s]

\* Process p ends here with the given status.
Ends(p, how, code) ==
    /\ pc' = [pc EXCEPT ![p] = how]
    /\ exitCode' = [exitCode EXCEPT ![p] = code]

inputs == <<run, args, container, image, supported>>

disk == <<rootfs, cacheFile, writers>>

mounts == <<hostMounts, privMounts>>

runtime == <<rt, threads, fds>>

\* Step 6: the cache is read when caching is enabled and the file exists.
UseCacheIgnoringFile(a, file) == a.cache

UseCache(a, file) == a.cache /\ file # "absent"

(* step 1 *)
AssertOverlaySupported ==
    /\ pc["top"] = "assert_overlay"
    /\ IF supported = "ok"
       THEN Goto("top", StepAfter("assert_overlay")) /\ UNCHANGED exitCode
       ELSE Ends("top", "aborted", "1")
    /\ UNCHANGED <<inputs, call, ns, mounts, events, info, disk, runtime>>

(* step 3 *)
Inspect ==
    /\ pc["top"] = "inspect"
    /\ Emit("docker_inspect", "top")
    /\ LET r == get_container_info(container)
       IN  IF r.ok
           THEN info' = r.val /\ Goto("top", StepAfter("inspect")) /\ UNCHANGED exitCode
           ELSE Ends("top", "aborted", "1") /\ UNCHANGED info
    /\ UNCHANGED <<inputs, call, ns, mounts, disk, runtime>>

(* step 4 *)
ClearStale ==
    /\ pc["top"] = "clear_stale"
    /\ hostMounts' = clear_stale(hostMounts, WorkDir)
    /\ events' = IF clear_stale(hostMounts, WorkDir) # hostMounts
                 THEN events \o <<Ev("detached_stale", "top"), Ev("clear_stale", "top")>>
                 ELSE Append(events, Ev("clear_stale", "top"))
    /\ Goto("top", StepAfter("clear_stale"))
    /\ UNCHANGED <<inputs, call, ns, exitCode, privMounts, info, disk, runtime>>

(* step 5 *)
PrepareLayout ==
    /\ pc["top"] = "layout"
    /\ \/ /\ rootfs' = "empty"
          /\ Emit("layout", "top")
          /\ Goto("top", StepAfter("layout"))
          /\ UNCHANGED exitCode
       \/ /\ Ends("top", "aborted", "1")
          /\ UNCHANGED <<rootfs, events>>
    /\ UNCHANGED <<inputs, call, ns, mounts, info, cacheFile, writers, runtime>>

(* step 6 *)
MaterializeStart ==
    /\ pc["top"] = "materialize"
    /\ IF UseCache(args, cacheFile)
       THEN /\ Goto("top", "cache_extract")
            /\ writers' = writers \cup {"materialize"}
            /\ Emit("cache_read", "top")
       ELSE /\ Goto("top", IF args.pull THEN "pull" ELSE "export")
            /\ UNCHANGED <<writers, events>>
    /\ UNCHANGED <<inputs, call, ns, exitCode, mounts, info, rootfs, cacheFile, runtime>>

\* extract_archive on the cache file: a truncated tar ends in an error.
CacheExtractEnd ==
    /\ pc["top"] = "cache_extract"
    /\ writers' = writers \ {"materialize"}
    /\ IF cacheFile = "complete"
       THEN /\ rootfs' = "image"
            /\ Goto("top", StepAfter("materialize"))
            /\ UNCHANGED exitCode
       ELSE /\ rootfs' = "partial"
            /\ Ends("top", "aborted", "1")
    /\ UNCHANGED <<inputs, call, ns, mounts, events, info, cacheFile, runtime>>

\* docker_helper.rs:87-109: create_image(..).await? ends the call on an error;
\* `while let Some(Ok(stat)) = download_stats.next().await` leaves the loop on
\* the first item that is an Err, and the function goes on to the export.
Pull ==
    /\ pc["top"] = "pull"
    /\ \E outcome \in {"ok", "create_err", "stream_err"} :
          /\ events' = events \o <<Ev("docker_pull", "top")>> \o
                           (IF outcome = "ok" THEN << >>
                            ELSE <<Ev("pull_" \o outcome, "top")>>)
          /\ IF outcome = "create_err"
             THEN Ends("top", "aborted", "1")
             ELSE Goto("top", "export") /\ UNCHANGED exitCode
    /\ UNCHANGED <<inputs, call, ns, mounts, info, disk, runtime>>

\* docker_helper.rs:112-125
ExportImage ==
    /\ pc["top"] = "export"
    /\ \E outcome \in {"ok", "create_file_err", "export_err", "copy_panic"} :
          CASE outcome = "ok" ->
                 /\ Emit("docker_export", "top")
                 /\ Goto("top", "extract")
                 /\ writers' = writers \cup {"materialize"}
                 /\ threads' = 2
                 /\ UNCHANGED exitCode
            [] outcome = "create_file_err" ->
                 /\ Ends("top", "aborted", "1")
                 /\ UNCHANGED <<events, writers, threads>>
            [] outcome = "export_err" ->
                 /\ Emit("docker_export", "top")
                 /\ Ends("top", "aborted", "1")
                 /\ threads' = 2
                 /\ UNCHANGED writers
            [] outcome = "copy_panic" ->
                 /\ Emit("docker_export", "top")
                 /\ Ends("top", "aborted", "101")
                 /\ threads' = 2
                 /\ UNCHANGED writers
    /\ UNCHANGED <<inputs, call, ns, mounts, info, rootfs, cacheFile, rt, fds>>

\* docker_helper.rs:127-200
ExtractLayers ==
    /\ pc["top"] = "extract"
    /\ rootfs' = RootfsAfterExport(image)
    /\ writers' = writers \ {"materialize"}
    /\ IF ExportOutcome(image).result = "ok"
       THEN Goto("top", StepAfter("materialize")) /\ UNCHANGED exitCode
       ELSE Ends("top", "aborted", "1")
    /\ UNCHANGED <<inputs, call, ns, mounts, events, info, cacheFile, runtime>>

ShutdownRuntime ==
    /\ pc["top"] = "rt_shutdown"
    /\ rt' = "shutdown"
    /\ threads' = 1
    /\ Emit("rt_shutdown", "top")
    /\ Goto("top", StepAfter("rt_shutdown"))
    /\ UNCHANGED <<inputs, call, ns, exitCode, mounts, info, disk, fds>>

\* mount(2) by process p: the entry goes to the table of p's mount namespace.
MountBy(p, entry) ==
    CASE ns[p].mnt = "host" -> hostMounts' = Append(hostMounts, entry) /\ UNCHANGED privMounts
      [] ns[p].mnt = "private" -> privMounts' = Append(privMounts, entry) /\ UNCHANGED hostMounts
      [] OTHER -> UNCHANGED mounts

(* step 7 *)
MountOverlay ==
    /\ pc["top"] = "mount_overlay"
    /\ \/ /\ MountBy("top", MountEntry(MergedFs, "overlay"))
          /\ Emit("mount_overlay", "top")
          /\ Goto("top", StepAfter("mount_overlay"))
          /\ UNCHANGED exitCode
       \/ /\ Ends("top", "aborted", "1")
          /\ UNCHANGED <<mounts, events>>
    /\ UNCHANGED <<inputs, call, ns, info, disk, runtime>>

MountBind ==
    /\ pc["top"] = "mount_bind"
    /\ \/ /\ MountBy("top", MountEntry(BindPoint, "bind"))
          /\ Emit("mount_bind", "top")
          /\ Goto("top", StepAfter("mount_bind"))
          /\ UNCHANGED exitCode
       \/ /\ Ends("top", "aborted", "1")
          /\ UNCHANGED <<mounts, events>>
    /\ UNCHANGED <<inputs, call, ns, info, disk, runtime>>

(* step 8 *)
WriteInit ==
    /\ pc["top"] = "write_init"
    /\ \/ /\ Emit("write_init", "top")
          /\ Goto("top", StepAfter("write_init"))
          /\ UNCHANGED exitCode
       \/ /\ Ends("top", "aborted", "1")
          /\ UNCHANGED events
    /\ UNCHANGED <<inputs, call, ns, mounts, info, disk, runtime>>

(* step 9 *)
EnterNamespace ==
    /\ pc["top"] = "setns"
    /\ \E sys \in SysOutcomes :
          LET r == enter_namespace(ns["top"], fds, AttachFlags, sys)
          IN  /\ ns' = [ns EXCEPT !["top"] = r.ns]
              /\ fds' = r.fds
              /\ events' = IF r.called THEN Append(events, Ev("setns", "top")) ELSE events
              /\ IF r.ok
                 THEN Goto("top", StepAfter("setns")) /\ UNCHANGED exitCode
                 ELSE Ends("top", "aborted", "1")
    /\ UNCHANGED <<inputs, call, mounts, info, disk, rt, threads>>

(* step 10: fork #1 *)
Fork1 ==
    /\ pc["top"] = "fork1"
    /\ \/ /\ pc' = [pc EXCEPT !["top"] = StepAfter("fork1"), !["c1"] = "unshare"]
          /\ ns' = [ns EXCEPT !["c1"] = ForkNs(ns["top"])]
          /\ Emit("fork1", "top")
          /\ UNCHANGED exitCode
       \/ /\ Ends("top", "aborted", "1")
          /\ UNCHANGED <<ns, events>>
    /\ UNCHANGED <<inputs, call, mounts, info, disk, runtime>>

\* waitpid(child) returns once the child has exited.
WaitReturnsAtOnce(child) == TRUE

WaitReturns(child) == pc[child] = "dead"

\* The status a parent ends with once its own steps are through: a failure of
\* the child it waited on is a fatal error of the run (spec sections 6 and 7).
ExitStatusIgnoringChild(child) == "0"

ExitStatus(child) == IF exitCode[child] = "0" THEN "0" ELSE "1"

Wait1 ==
    /\ pc["top"] = "wait1"
    /\ WaitReturns("c1")
    /\ Emit("wait1_returned", "top")
    /\ Goto("top", StepAfter("wait1"))
    /\ UNCHANGED <<inputs, call, ns, exitCode, mounts, info, disk, runtime>>

\* The cache file is created (truncated) at its final path and then filled entry by entry.
CacheWriteBegin ==
    /\ pc["top"] = "cache_write"
    /\ IF args.cache
       THEN \/ /\ cacheFile' = "partial"
               /\ writers' = writers \cup {"cache_writer"}
               /\ Emit("cache_write_begin", "top")
               /\ Goto("top", "cache_writing")
               /\ UNCHANGED exitCode
            \/ /\ Ends("top", "aborted", "1")
               /\ UNCHANGED <<cacheFile, writers, events>>
       ELSE /\ Goto("top", StepAfter("cache_write"))
            /\ UNCHANGED <<cacheFile, writers, events, exitCode>>
    /\ UNCHANGED <<inputs, call, ns, mounts, info, rootfs, runtime>>

CacheWriteEnd ==
    /\ pc["top"] = "cache_writing"
    /\ writers' = writers \ {"cache_writer"}
    /\ \/ /\ cacheFile' = "complete"
          /\ Emit("cache_write_end", "top")
          /\ Goto("top", StepAfter("cache_write"))
          /\ UNCHANGED exitCode
       \/ /\ Ends("top", "aborted", "1")
          /\ UNCHANGED <<cacheFile, events>>
    /\ UNCHANGED <<inputs, call, ns, mounts, info, rootfs, runtime>>

\* Which of the run's mounts the exit sequence unmounts.
UnmountsBindOnlyWhenAsked(a) == a.unmount_on_exit

UnmountsBind(a) == TRUE

UnmountsOverlay(a) == a.unmount_on_exit

UnmountBind ==
    /\ pc["top"] = "umount_bind"
    /\ IF UnmountsBind(args)
       THEN \/ /\ IsMounted(hostMounts, BindPoint)
               /\ hostMounts' = Unmount(hostMounts, BindPoint)
               /\ Emit("umount_bind", "top")
               /\ Goto("top", StepAfter("umount_bind"))
               /\ UNCHANGED exitCode
            \/ /\ Ends("top", "aborted", "1")
               /\ UNCHANGED <<hostMounts, events>>
       ELSE /\ Goto("top", StepAfter("umount_bind"))
            /\ UNCHANGED <<hostMounts, events, exitCode>>
    /\ UNCHANGED <<inputs, call, ns, privMounts, info, disk, runtime>>

UnmountOverlay ==
    /\ pc["top"] = "umount_overlay"
    /\ IF UnmountsOverlay(args)
       THEN \/ /\ IsMounted(hostMounts, MergedFs)
               /\ hostMounts' = Unmount(hostMounts, MergedFs)
               /\ Emit("umount_overlay", "top")
               /\ Goto("top", StepAfter("umount_overlay"))
               /\ UNCHANGED exitCode
            \/ /\ Ends("top", "aborted", "1")
               /\ UNCHANGED <<hostMounts, events>>
       ELSE /\ Goto("top", StepAfter("umount_overlay"))
            /\ UNCHANGED <<hostMounts, events, exitCode>>
    /\ UNCHANGED <<inputs, call, ns, privMounts, info, disk, runtime>>

Exit ==
    /\ pc["top"] = "exit"
    /\ Ends("top", StepAfter("exit"), ExitStatus("c1"))
    /\ UNCHANGED <<inputs, call, ns, mounts, events, info, disk, runtime>>

\* A signal ends the top-level process wherever it is; its children run on.
Kill ==
    /\ pc["top"] \notin Terminated
    /\ Ends("top", "killed", "killed")
    /\ writers' = writers \ {"materialize", "cache_writer"}
    /\ UNCHANGED <<inputs, call, ns, mounts, events, info, rootfs, cacheFile, runtime>>

(* step 11: child #1 *)
C1Unshare ==
    /\ pc["c1"] = "unshare"
    /\ \/ /\ ns' = [ns EXCEPT !["c1"] = UnshareMnt(ns["c1"])]
          /\ privMounts' = hostMounts
          /\ Emit("unshare", "c1")
          /\ Goto("c1", "fork2")
          /\ UNCHANGED exitCode
       \/ /\ Ends("c1", "dead", "1")
          /\ UNCHANGED <<ns, privMounts, events>>
    /\ UNCHANGED <<inputs, call, hostMounts, info, disk, runtime>>

(* step 12: fork #2 *)
C1Fork2 ==
    /\ pc["c1"] = "fork2"
    /\ \/ /\ pc' = [pc EXCEPT !["c1"] = "wait2", !["c2"] = "chdir"]
          /\ ns' = [ns EXCEPT !["c2"] = ForkNs(ns["c1"])]
          /\ Emit("fork2", "c1")
          /\ UNCHANGED exitCode
       \/ /\ Ends("c1", "dead", "1")
          /\ UNCHANGED <<ns, events>>
    /\ UNCHANGED <<inputs, call, mounts, info, disk, runtime>>

C1Wait2 ==
    /\ pc["c1"] = "wait2"
    /\ WaitReturns("c2")
    /\ Ends("c1", "dead", ExitStatus("c2"))
    /\ UNCHANGED <<inputs, call, ns, mounts, events, info, disk, runtime>>

C2Chdir ==
    /\ pc["c2"] = "chdir"
    /\ \/ /\ Emit("chdir", "c2")
          /\ Goto("c2", "exec")
          /\ UNCHANGED exitCode
       \/ /\ Ends("c2", "dead", "1")
          /\ UNCHANGED events
    /\ UNCHANGED <<inputs, call, ns, mounts, info, disk, runtime>>

\* execv("/usr/bin/bash", ["--init-file", "init.sh"]); a return from it is fatal.
C2Exec ==
    /\ pc["c2"] = "exec"
    /\ \/ /\ Emit("exec", "c2")
          /\ Goto("c2", "shell")
          /\ writers' = writers \cup {"shell"}
          /\ UNCHANGED exitCode
       \/ /\ Ends("c2", "dead", "1")
          /\ UNCHANGED <<events, writers>>
    /\ UNCHANGED <<inputs, call, ns, mounts, info, rootfs, cacheFile, runtime>>

\* The operator leaves the shell.
ShellExit ==
    /\ pc["c2"] = "shell"
    /\ \E code \in {"0", "1"} : Ends("c2", "dead", code)
    /\ writers' = writers \ {"shell"}
    /\ Emit("shell_exit", "c2")
    /\ UNCHANGED <<inputs, call, ns, mounts, info, rootfs, cacheFile, runtime>>

\* The program is started again on the same host once the last run is gone.
NewInvocation ==
    /\ run < MaxRuns
    /\ pc["top"] \in Terminated
    /\ pc["c1"] \in {"none", "dead"}
    /\ pc["c2"] \in {"none", "dead"}
    /\ run' = run + 1
    /\ args' \in Args
    /\ container' \in Containers
    /\ image' \in Images
    /\ pc' = [p \in Procs |-> IF p = "top" THEN Lifecycle[1] ELSE "none"]
    /\ ns' = [p \in Procs |-> HostNs]
    /\ exitCode' = [p \in Procs |-> NoCode]
    /\ privMounts' = << >>
    /\ events' = << >>
    /\ info' = NoInfo
    /\ writers' = {}
    /\ rt' = "running"
    /\ threads' = 1
    /\ fds' = {}
    /\ UNCHANGED <<supported, hostMounts, rootfs, cacheFile, call>>

Init ==
    /\ run = 1
    /\ args \in Args
    /\ container \in Containers
    /\ image \in Images
    /\ supported \in {"ok", "no_overlay"}
    /\ pc = [p \in Procs |-> IF p = "top" THEN Lifecycle[1] ELSE "none"]
    /\ ns = [p \in Procs |-> HostNs]
    /\ exitCode = [p \in Procs |-> NoCode]
    /\ hostMounts \in InitialMountTables
    /\ privMounts = << >>
    /\ events = << >>
    /\ info = NoInfo
    /\ rootfs = "absent"
    /\ cacheFile \in {"absent", "complete"}
    /\ writers = {}
    /\ rt = "running"
    /\ threads = 1
    /\ fds = {}
    /\ call = NoCall

Next ==
    \/ AssertOverlaySupported
    \/ Inspect
    \/ ClearStale
    \/ PrepareLayout
    \/ MaterializeStart
    \/ CacheExtractEnd
    \/ Pull
    \/ ExportImage
    \/ ExtractLayers
    \/ ShutdownRuntime
    \/ MountOverlay
    \/ MountBind
    \/ WriteInit
    \/ EnterNamespace
    \/ Fork1
    \/ Wait1
    \/ CacheWriteBegin
    \/ CacheWriteEnd
    \/ UnmountBind
    \/ UnmountOverlay
    \/ Exit
    \/ Kill
    \/ C1Unshare
    \/ C1Fork2
    \/ C1Wait2
    \/ C2Chdir
    \/ C2Exec
    \/ ShellExit
    \/ NewInvocation

Spec == Init /\ [][Next]_vars

(***************************************************************************)
(* main() of src/src/main.rs, statement by statement.                      *)
(***************************************************************************)

MainSteps ==
    <<"m_parse", "m_supported", "m_myself", "m_debug1", "m_pidfd", "m_setns", "m_debug2",
      "m_unshare", "m_debug3", "m_mount", "m_chroot", "m_debug4", "m_ret">>

MainStepAfter(s) ==
    LET i == CHOOSE k \in 1..Len(MainSteps) : MainSteps[k] = s
    IN  IF i = Len(MainSteps) THEN "done" ELSE MainSteps[i + 1]

RootPoint == <<"/">>

\* main.rs:311  Args::try_parse()?
MainParseArgs ==
    /\ pc["top"] = "m_parse"
    /\ \/ Goto("top", MainStepAfter("m_parse")) /\ UNCHANGED exitCode
       \/ Ends("top", "aborted", "1")
    /\ UNCHANGED <<inputs, call, ns, mounts, events, info, disk, runtime>>

\* main.rs:314-326
MainCheckOverlay ==
    /\ pc["top"] = "m_supported"
    /\ IF supported = "ok"
       THEN Goto("top", MainStepAfter("m_supported")) /\ UNCHANGED exitCode
       ELSE Ends("top", "aborted", "1")
    /\ UNCHANGED <<inputs, call, ns, mounts, events, info, disk, runtime>>

\* main.rs:329-334  Process::myself()? and namespaces().unwrap()
MainMyself ==
    /\ pc["top"] = "m_myself"
    /\ \/ Goto("top", MainStepAfter("m_myself")) /\ UNCHANGED exitCode
       \/ Ends("top", "aborted", "1")
       \/ Ends("top", "aborted", "101")
    /\ UNCHANGED <<inputs, call, ns, mounts, events, info, disk, runtime>>

\* print_process_count()? runs `cat` as a child and waits for it; debug_mount()?
\* reads the mount table (main.rs:335-336, 365-371, 382-388, 408-409).
MainDebug ==
    /\ pc["top"] \in {"m_debug1", "m_debug2", "m_debug3", "m_debug4"}
    /\ \/ /\ Emit("spawn_cat", "top")
          /\ Goto("top", MainStepAfter(pc["top"]))
          /\ UNCHANGED exitCode
       \/ /\ Ends("top", "aborted", "1")
          /\ UNCHANGED events
    /\ UNCHANGED <<inputs, call, ns, mounts, info, disk, runtime>>

\* main.rs:344-348
MainPidfdOpen ==
    /\ pc["top"] = "m_pidfd"
    /\ \/ /\ fds' = fds \cup {"pidfd"}
          /\ Goto("top", MainStepAfter("m_pidfd"))
          /\ UNCHANGED exitCode
       \/ /\ Ends("top", "aborted", "1")
          /\ UNCHANGED fds
    /\ UNCHANGED <<inputs, call, ns, mounts, events, info, disk, rt, threads>>

\* main.rs:349-363
MainSetns ==
    /\ pc["top"] = "m_setns"
    /\ \/ /\ ns' = [ns EXCEPT !["top"] = SetnsEffect(ns["top"], AttachFlags)]
          /\ Emit("setns", "top")
          /\ Goto("top", MainStepAfter("m_setns"))
          /\ UNCHANGED exitCode
       \/ /\ Ends("top", "aborted", "1")
          /\ UNCHANGED <<ns, events>>
    /\ UNCHANGED <<inputs, call, mounts, info, disk, runtime>>

\* main.rs:374-381
MainUnshare ==
    /\ pc["top"] = "m_unshare"
    /\ \/ /\ ns' = [ns EXCEPT !["top"] = UnshareMnt(ns["top"])]
          /\ privMounts' = hostMounts
          /\ Emit("unshare", "top")
          /\ Goto("top", MainStepAfter("m_unshare"))
          /\ UNCHANGED exitCode
       \/ /\ Ends("top", "aborted", "1")
          /\ UNCHANGED <<ns, privMounts, events>>
    /\ UNCHANGED <<inputs, call, hostMounts, info, disk, runtime>>

\* main.rs:391-406  mount(".../tmpfs/merged", "/", MS_BIND)
MainMountRoot ==
    /\ pc["top"] = "m_mount"
    /\ \/ /\ MountBy("top", MountEntry(RootPoint, "bind"))
          /\ Emit("mount_root", "top")
          /\ Goto("top", MainStepAfter("m_mount"))
          /\ UNCHANGED exitCode
       \/ /\ Ends("top", "aborted", "1")
          /\ UNCHANGED <<mounts, events>>
    /\ UNCHANGED <<inputs, call, ns, info, disk, runtime>>

\* main.rs:407  unix::fs::chroot("/")?
MainChroot ==
    /\ pc["top"] = "m_chroot"
    /\ \/ /\ Emit("chroot", "top")
          /\ Goto("top", MainStepAfter("m_chroot"))
          /\ UNCHANGED exitCode
       \/ /\ Ends("top", "aborted", "1")
          /\ UNCHANGED events
    /\ UNCHANGED <<inputs, call, ns, mounts, info, disk, runtime>>

\* main.rs:480  Ok(()): main returns and #[tokio::main] drops the runtime.
MainReturn ==
    /\ pc["top"] = "m_ret"
    /\ Ends("top", MainStepAfter("m_ret"), "0")
    /\ rt' = "shutdown"
    /\ UNCHANGED <<inputs, call, ns, mounts, events, info, disk, threads, fds>>

\* #[tokio::main(flavor = "current_thread")]: the runtime runs main on the one
\* thread of the process from the first statement on.
InitMain ==
    /\ run = 1
    /\ args \in Args
    /\ container = CtrRunning
    /\ image = ImgGood
    /\ supported \in {"ok", "err", "no_overlay"}
    /\ pc = [p \in Procs |-> IF p = "top" THEN MainSteps[1] ELSE "none"]
    /\ ns = [p \in Procs |-> HostNs]
    /\ exitCode = [p \in Procs |-> NoCode]
    /\ hostMounts \in {<<ForeignMount>>,
                       <<ForeignMount, MountEntry(ContainerMerged, "overlay")>>}
    /\ privMounts = << >>
    /\ events = << >>
    /\ info = NoInfo
    /\ rootfs = "absent"
    /\ cacheFile = "absent"
    /\ writers = {}
    /\ rt = "running"
    /\ threads = 1
    /\ fds = {}
    /\ call = NoCall

NextMain ==
    \/ MainParseArgs
    \/ MainCheckOverlay
    \/ MainMyself
    \/ MainDebug
    \/ MainPidfdOpen
    \/ MainSetns
    \/ MainUnshare
    \/ MainMountRoot
    \/ MainChroot
    \/ MainReturn

SpecMain == InitMain /\ [][NextMain]_vars

(***************************************************************************)
(* The helper functions, each called on its own.  A string is the sequence  *)
(* of its characters.                                                       *)
(***************************************************************************)

MaxContentLen == 4

\* str::find(c): the index of the first c (0 without one).
Find(str, c) ==
    IF \E i \in 1..Len(str) : str[i] = c
    THEN CHOOSE i \in 1..Len(str) : str[i] = c /\ \A j \in 1..(i - 1) : str[j] # c
    ELSE 0

\* str::replace(from, to) for one-character patterns: every occurrence is replaced.
Replace(str, from, to) == [i \in 1..Len(str) |-> IF str[i] = from THEN to ELSE str[i]]

(* ------------------------ cli.rs: image_cache_filename ---------------- *)

Latest == <<"l", "a", "t", "e", "s", "t">>

DotTar == <<".", "t", "a", "r">>

\* split_once(":") cuts at the first ':'; only the part before it has its '/' replaced.
image_cache_filename(ref) ==
    LET at == Find(ref, ":")
        image_name == IF at = 0 THEN ref ELSE SubSeq(ref, 1, at - 1)
        tag == IF at = 0 THEN Latest ELSE SubSeq(ref, at + 1, Len(ref))
    IN  Replace(image_name, "/", "_") \o <<"_">> \o tag \o DotTar

ImageNames ==
    {<<"d", "e", "b", "i", "a", "n">>,
     <<"l", "i", "b", "r", "a", "r", "y", "/", "f", "o", "o">>,
     <<"a", "/", "b", "/", "c">>,
     <<"a", "_", "b">>,
     <<"a", "/", "b">>,
     <<"r", "e", "g", ":", "5", "0", "0", "0", "/", "f", "o", "o">>}

Tags == {<<"1", "2">>, Latest, <<"1", ".", "0">>}

\* The reference the operator passes with --image.
Reference(r) == IF r.tagged THEN r.image \o <<":">> \o r.tag ELSE r.image

(* ------------------------ main.rs: parse_namespace_content ------------ *)

Digits == <<"0", "1", "2", "3", "4", "5", "6", "7", "8", "9">>

IsDigit(c) == \E d \in 1..Len(Digits) : Digits[d] = c

DigitValue(c) == (CHOOSE d \in 1..Len(Digits) : Digits[d] = c) - 1

RECURSIVE DecimalValue(_)
DecimalValue(str) ==
    IF str = << >> THEN 0
    ELSE DecimalValue(SubSeq(str, 1, Len(str) - 1)) * Len(Digits) + DigitValue(str[Len(str)])

\* str::parse::<usize>(): an optional '+' and then one or more decimal digits.
ParseUsize(str) ==
    LET digits == IF str # << >> /\ Head(str) = "+" THEN Tail(str) ELSE str
    IN  IF digits # << >> /\ \A i \in 1..Len(digits) : IsDigit(digits[i])
        THEN [kind |-> "ok", val |-> DecimalValue(digits)]
        ELSE [kind |-> "err"]

\* &content[start + 1..end] panics when the range begins behind its end, that
\* is when the first ']' is in front of the first '['.
parse_namespace_content(content) ==
    LET start == Find(content, "[")
        end == Find(content, "]")
    IN  IF start = 0 THEN [kind |-> "err"]
        ELSE IF end = 0 THEN [kind |-> "err"]
        ELSE IF end < start THEN [kind |-> "panic"]
        ELSE ParseUsize(SubSeq(content, start + 1, end - 1))

ContentAlphabet == {"[", "]", "4", "7", "x"}

Contents ==
    UNION {[1..n -> ContentAlphabet] : n \in 0..MaxContentLen}
        \cup {<<"m", "n", "t", ":", "[", "4", "0", "2", "6", "]">>}

(* ------------------------ docker_helper.rs: the layer key ------------- *)

Hexes == {"a", "b", "0f3c", "cfg"}

(* ------------------------ the cache writer and its tars --------------- *)

Target(to, bytes, utf8) == [to |-> to, bytes |-> bytes, utf8 |-> utf8]

\* The nodes a rootfs/ is made of here: directories (one of them read-only),
\* files (one of them setuid), a link to a file, a dangling link, a link whose
\* target is 104 bytes long and a link whose target is not UTF-8.
Universe ==
    [p \in {<<"etc">>, <<"etc", "passwd">>, <<"bin">>, <<"bin", "su">>, <<"sh">>,
            <<"dangling">>, <<"far">>, <<"odd">>} |->
        CASE p = <<"etc">> -> [type |-> "dir", mode |-> 493]
          [] p = <<"etc", "passwd">> -> [type |-> "file", mode |-> 420, data |-> "p"]
          [] p = <<"bin">> -> [type |-> "dir", mode |-> 365]
          [] p = <<"bin", "su">> -> [type |-> "file", mode |-> 2541, data |-> "s"]
          [] p = <<"sh">> -> [type |-> "symlink", target |-> Target(<<"bin", "su">>, 6, TRUE)]
          [] p = <<"dangling">> ->
                 [type |-> "symlink", target |-> Target(<<"gone">>, 4, TRUE)]
          [] p = <<"far">> ->
                 [type |-> "symlink", target |-> Target(<<"etc", "passwd">>, 104, TRUE)]
          [] p = <<"odd">> ->
                 [type |-> "symlink", target |-> Target(<<"caf?">>, 4, FALSE)]]

Trees ==
    {[p \in paths |-> Universe[p]] :
        paths \in {ps \in SUBSET DOMAIN Universe :
                      \A p \in ps : Len(p) > 1 => Parent(p) \in ps}}

\* What a tar writer does with a link target that does not fit the header: it
\* sends the target ahead as a long-link record and leaves the field empty or
\* filled with the leading components, or it refuses to write the archive.
LongLinkStyles == {"field_empty", "field_prefix", "refuse"}

HeaderLink(target, style) ==
    IF target.bytes <= LinkNameField THEN target
    ELSE IF style = "field_empty" THEN Target(<< >>, 0, TRUE)
    ELSE Target(Parent(target.to), LinkNameField, target.utf8)

EntryOf(p, node, style) ==
    CASE node.type = "dir" -> DirEntry(p, node.mode)
      [] node.type = "file" -> FileEntry(p, node.mode, node.data)
      [] node.type = "symlink" -> LinkEntry(p, HeaderLink(node.target, style))

\* The tar of rootfs/: every node once, a directory ahead of what is in it,
\* symbolic links stored as links.
RECURSIVE TarOf(_, _, _)
TarOf(tree, todo, style) ==
    IF todo = {} THEN << >>
    ELSE LET p == CHOOSE q \in todo : \A r \in todo : Len(q) <= Len(r)
         IN  <<EntryOf(p, tree[p], style)>> \o TarOf(tree, todo \ {p}, style)

CacheTar(tree, style) ==
    IF style = "refuse" /\ \E p \in DOMAIN tree :
                              /\ tree[p].type = "symlink"
                              /\ tree[p].target.bytes > LinkNameField
    THEN [written |-> FALSE, entries |-> << >>]
    ELSE [written |-> TRUE, entries |-> TarOf(tree, DOMAIN tree, style)]

MaxLayers == 2

\* The image tars docker export can hand over: a first manifest entry listing up
\* to MaxLayers of the blobs a, b and c in any order, with or without a second
\* manifest entry behind it, with all blobs or without blob a, with sound or
\* faulty LayerSources, no manifest entry at all, and the faulty images.
LayerLists ==
    UNION {[1..n -> {Blob("a"), Blob("b"), Blob("c")}] : n \in 0..MaxLayers}

AllSources == [k \in {Key("a"), Key("b"), Key("c")} |-> TarLayer]

\* The faults a manifest entry can have: no LayerSources entry for b, or c of
\* a media type other than an image layer.
FaultySources ==
    {[k \in {Key("a"), Key("c")} |-> TarLayer],
     [k \in {Key("a"), Key("b"), Key("c")} |->
         IF k = Key("c") THEN TarLayerEncrypted ELSE TarLayer]}

ExportedImages ==
    {[manifest |-> <<ManifestOf(layers, sources)>> \o more, blobs |-> blobs] :
        layers \in LayerLists,
        sources \in {AllSources} \cup FaultySources,
        blobs \in {{Blob("a"), Blob("b"), Blob("c"), Blob("cfg")},
                   {Blob("b"), Blob("c"), Blob("cfg")}},
        more \in {<< >>, <<ManifestOf(<<Blob("c"), Blob("b")>>, AllSources)>>}}
        \cup Images

(* -------------- docker_helper.rs: reading the exported tar ------------ *)

\* One entry of temp.tar (docker_helper.rs:131-160); acc holds the manifest
\* parsed so far, the blobs buffered by entry path and the tree of tmp_dir.
\* Path::ends_with and Path::starts_with compare whole components.
ReadEntry(acc, e) ==
    CASE e.type = "Regular" ->
             IF e.path[Len(e.path)] = "manifest.json"
             THEN IF e.data.json THEN [acc EXCEPT !.manifest = e.data.value]
                  ELSE [acc EXCEPT !.result = "err"]
             ELSE IF StartsWith(e.path, <<"blobs", "sha256">>)
             THEN [acc EXCEPT !.blob = Put(acc.blob, e.path, e.data)]
             ELSE IF \/ ~IsDir(acc.tmp, Parent(e.path))
                     \/ (e.path \in DOMAIN acc.tmp /\ acc.tmp[e.path].type # "file")
             THEN [acc EXCEPT !.result = "err"]
             ELSE [acc EXCEPT !.tmp = Put(acc.tmp, e.path,
                                         [type |-> "file", mode |-> 420, data |-> e.data])]
      [] e.type = "Directory" ->
             [acc EXCEPT !.result = CreateDirAll(acc.tmp, e.path).result,
                         !.tmp = CreateDirAll(acc.tmp, e.path).fs]
      [] OTHER -> acc

\* for file in tar_archive.entries(): the first error ends the call.
RECURSIVE ReadImageTar(_, _)
ReadImageTar(entries, acc) ==
    IF entries = << >> \/ acc.result # "ok" THEN acc
    ELSE ReadImageTar(Tail(entries), ReadEntry(acc, Head(entries)))

\* The tars read here: the blobs a and b, with or without manifest.json at the
\* root, and ahead of it and behind the blobs one of: nothing, repositories at
\* the root, a directory sub holding a manifest.json that is a manifest array or
\* that is not JSON, or a symbolic link.
ImageTars ==
    LET Json(v) == [json |-> TRUE, value |-> v]
        Raw(v) == [json |-> FALSE, value |-> v]
        extras ==
            {<< >>,
             <<FileEntry(<<"repositories">>, 420, Raw("r"))>>,
             <<DirEntry(<<"sub">>, 493),
               FileEntry(<<"sub", "manifest.json">>, 420,
                         Json(<<ManifestOf(<<Blob("b")>>, AllSources)>>))>>,
             <<DirEntry(<<"sub">>, 493),
               FileEntry(<<"sub", "manifest.json">>, 420, Raw("m"))>>,
             <<LinkEntry(<<"latest">>, Target(<<"blobs">>, 5, TRUE))>>}
        root == {<< >>,
                 <<FileEntry(<<"manifest.json">>, 420,
                             Json(<<ManifestOf(<<Blob("a"), Blob("b")>>, AllSources)>>))>>}
        blobs == <<DirEntry(<<"blobs">>, 493), DirEntry(<<"blobs", "sha256">>, 493),
                   FileEntry(<<"blobs", "sha256", "a">>, 420, Raw("a")),
                   FileEntry(<<"blobs", "sha256", "b">>, 420, Raw("b"))>>
    IN  {ahead \o r \o blobs \o behind : ahead \in extras, r \in root, behind \in extras}

(* ------------------------ main.rs: the work directory ----------------- *)

\* tokio::fs::remove_dir_all(path): the directory goes with everything below
\* it; a path that does not exist is an error (NotFound).
RemoveDirAll(fs, p) ==
    IF p \notin DOMAIN fs THEN [result |-> "err", fs |-> fs]
    ELSE [result |-> "ok",
          fs |-> [q \in {r \in DOMAIN fs : ~StartsWith(r, p)} |-> fs[q]]]

\* main.rs:93-97: remove_dir_all(work_dir)?, then create_dir_all(..)? of
\* work_dir, extract and upper; the first error ends the call.
PrepareWorkDir(fs, dir) ==
    LET removed == RemoveDirAll(fs, dir)
        made == CreateDirAll(removed.fs, dir)
        extract == CreateDirAll(made.fs, Append(dir, "extract"))
        upper == CreateDirAll(extract.fs, Append(dir, "upper"))
    IN  IF removed.result # "ok" THEN removed
        ELSE IF made.result # "ok" THEN made
        ELSE IF extract.result # "ok" THEN extract
        ELSE upper

\* What the host can hold when the work directory is prepared: no work
\* directory yet (the first run), an empty one, or the one an earlier run left.
WorkDirStates ==
    {[p \in paths |-> IF Len(p) = 3 THEN [type |-> "file", mode |-> 420, data |-> "old"]
                      ELSE [type |-> "dir", mode |-> 493]] :
        paths \in {ps \in SUBSET {<<"home">>, <<"work">>, <<"work", "extract">>,
                                  <<"work", "upper">>, <<"work", "extract", "temp.tar">>,
                                  <<"work", "upper", "bin">>} :
                      \A p \in ps : Len(p) > 1 => Parent(p) \in ps}}

(* ------------------------------ the calls ----------------------------- *)

machine ==
    <<run, args, container, image, supported, pc, ns, exitCode, hostMounts, privMounts,
      events, info, rootfs, cacheFile, writers, rt, threads, fds>>

CallImageCacheFilename ==
    /\ call = NoCall
    /\ \E r \in [image : ImageNames, tagged : BOOLEAN, tag : Tags] :
          call' = [fn |-> "image_cache_filename", arg |-> r,
                   out |-> image_cache_filename(Reference(r))]
    /\ UNCHANGED machine

CallParseNamespaceContent ==
    /\ call = NoCall
    /\ \E content \in Contents :
          call' = [fn |-> "parse_namespace_content", arg |-> content,
                   out |-> parse_namespace_content(content)]
    /\ UNCHANGED machine

CallLayerKey ==
    /\ call = NoCall
    /\ \E h \in Hexes :
          call' = [fn |-> "layer_key", arg |-> h, out |-> LayerKey(Blob(h))]
    /\ UNCHANGED machine

\* Nothing runs besides the one call.
CallExportOverlayImage ==
    /\ call = NoCall
    /\ \E img \in ExportedImages :
          call' = [fn |-> "export_overlay_image", arg |-> img, out |-> ExportOutcome(img)]
    /\ UNCHANGED machine

\* The cache writer archives a tree and extract_archive unpacks the archive
\* into an empty directory.
CallRoundTrip ==
    /\ call = NoCall
    /\ \E tree \in Trees, style \in LongLinkStyles :
          LET tar == CacheTar(tree, style)
          IN  call' = [fn |-> "round_trip", arg |-> [tree |-> tree, style |-> style],
                       written |-> tar.written,
                       out |-> IF tar.written THEN extract_archive(tar.entries, EmptyTree)
                               ELSE [result |-> "no archive", fs |-> EmptyTree]]
    /\ UNCHANGED machine

\* main.rs:89-97 on a host in one of the states above.
CallPrepareWorkDir ==
    /\ call = NoCall
    /\ \E fs \in WorkDirStates :
          call' = [fn |-> "prepare_work_dir", arg |-> fs,
                   out |-> PrepareWorkDir(fs, <<"work">>)]
    /\ UNCHANGED machine

\* extract_archive on an archive of one symlink or hardlink entry, the
\* destination directory holding what earlier layers wrote.
CallExtractLink ==
    /\ call = NoCall
    /\ \E fs \in Trees, p \in {<<"sh">>, <<"dangling">>, <<"bin", "su">>},
          t \in {"Symlink", "Link"} :
          LET entry == [LinkEntry(p, Target(<<"etc", "passwd">>, 10, TRUE))
                           EXCEPT !.type = t]
          IN  call' = [fn |-> "extract_link", arg |-> [fs |-> fs, entry |-> entry],
                       out |-> extract_archive(<<entry>>, fs)]
    /\ UNCHANGED machine

\* The tar-reading loop of export_overlay_image on one exported tar.
CallReadImageTar ==
    /\ call = NoCall
    /\ \E tar \in ImageTars :
          call' = [fn |-> "read_image_tar", arg |-> tar,
                   out |-> ReadImageTar(tar, [result |-> "ok", manifest |-> << >>,
                                              blob |-> EmptyTree, tmp |-> EmptyTree])]
    /\ UNCHANGED machine

InitLib ==
    /\ run = 1
    /\ args = [pull |-> FALSE, cache |-> TRUE, unmount_on_exit |-> TRUE]
    /\ container = CtrRunning
    /\ image = ImgGood
    /\ supported = "ok"
    /\ pc = [p \in Procs |-> "none"]
    /\ ns = [p \in Procs |-> HostNs]
    /\ exitCode = [p \in Procs |-> NoCode]
    /\ hostMounts = <<ForeignMount>>
    /\ privMounts = << >>
    /\ events = << >>
    /\ info = NoInfo
    /\ rootfs = "absent"
    /\ cacheFile = "absent"
    /\ writers = {}
    /\ rt = "running"
    /\ threads = 1
    /\ fds = {}
    /\ call = NoCall

NextLib ==
    \/ CallImageCacheFilename
    \/ CallParseNamespaceContent
    \/ CallLayerKey
    \/ CallExportOverlayImage
    \/ CallRoundTrip
    \/ CallPrepareWorkDir
    \/ CallExtractLink
    \/ CallReadImageTar

SpecLib == InitLib /\ [][NextLib]_vars

(***************************************************************************)
(* Properties.                                                             *)
(***************************************************************************)

Happened(e) == \E i \in 1..Len(events) : events[i].e = e

\* Every occurrence of b in this run comes after an occurrence of a.
Precedes(a, b) ==
    \A j \in 1..Len(events) :
        events[j].e = b => \E i \in 1..(j - 1) : events[i].e = a

MountEvents == {"mount_overlay", "mount_bind", "mount_root"}

DockerEvents == {"docker_inspect", "docker_pull", "docker_export"}

C2_MountsBeforeUnshare ==
    \A j \in 1..Len(events) :
        events[j].e \in MountEvents =>
            /\ events[j].mnt = "host"
            /\ \A i \in 1..(j - 1) : events[i].e # "unshare"

\* C3: the top-level process is in the host mount namespace in every state of
\* the run: the setns with CGROUP|IPC|NET|PID|UTS leaves its mount namespace
\* alone, and unshare(CLONE_NEWNS) is executed by child #1 only.
C3_TopStaysInHostMountNs ==
    /\ ns["top"].mnt = "host"
    /\ \A j \in 1..Len(events) : events[j].e = "unshare" => events[j].by = "c1"

C5_RuntimeShutDownBeforeSetns ==
    /\ \A j \in 1..Len(events) :
          events[j].e \in {"setns", "unshare", "fork1", "fork2"} =>
              \E i \in 1..(j - 1) : events[i].e = "rt_shutdown"
    /\ Happened("setns") => threads = 1
    /\ \A i, j \in 1..Len(events) :
          (events[i].e = "setns" /\ i < j) => events[j].e \notin DockerEvents

C7_WritersNeverOverlap ==
    /\ Cardinality(writers) <= 1
    /\ "shell" \in writers => rootfs = "image"
    /\ Happened("exec") => Happened("rt_shutdown")
    /\ Happened("cache_write_begin") =>
          /\ pc["c1"] = "dead"
          /\ pc["c2"] \in {"none", "dead"}

C7_Witness == "cache_writer" \in writers /\ Happened("shell_exit")

ContainerInvalid(c) ==
    \/ ~c.Exists
    \/ ~c.Running
    \/ c.Driver # "overlay2"
    \/ "MergedDir" \notin DOMAIN c.Data

\* The image has no manifest, or a layer of its first manifest has a media type
\* other than an uncompressed image layer.
ImageBad(img) ==
    \/ img.manifest = << >>
    \/ \E k \in 1..Len(img.manifest[1].Layers) :
          LET l == img.manifest[1].Layers[k]
              key == Key(l[Len(l)])
          IN  /\ key \in DOMAIN img.manifest[1].LayerSources
              /\ img.manifest[1].LayerSources[key] # TarLayer

\* Image preparation ended in an error: the run aborted between the layout step
\* and the shutdown of the runtime.
PrepFailed ==
    /\ pc["top"] = "aborted"
    /\ Happened("layout")
    /\ ~Happened("rt_shutdown")

C11_ContainerInfoOnlyWhenValid ==
    /\ ~Happened("docker_inspect") => info = NoInfo
    /\ Happened("docker_inspect") =>
          IF /\ container.Exists
             /\ container.Running
             /\ container.Driver = "overlay2"
             /\ "MergedDir" \in DOMAIN container.Data
          THEN info = [pid |-> container.Pid, merged_dir |-> container.Data["MergedDir"]]
          ELSE /\ info = NoInfo
               /\ pc["top"] = "aborted"
               /\ ~get_container_info(container).ok
               /\ (container.Exists /\ ~container.Running) =>
                      get_container_info(container).err = "container is not running"
               /\ (container.Exists /\ container.Running /\ container.Driver # "overlay2") =>
                      get_container_info(container).err =
                          <<"only overlay2 driver is supported, found: ", container.Driver>>
               /\ (container.Exists /\ container.Running /\ container.Driver = "overlay2") =>
                      get_container_info(container).err =
                          "expect MergedDir in GraphDriver setting"

C11_Witness ==
    /\ Happened("docker_inspect")
    /\ container = CtrOther
    /\ info = [pid |-> CtrOther.Pid, merged_dir |-> CtrOther.Data["MergedDir"]]

\* The entries of a mount table whose mount point is not under work_dir.
NotUnder(tab, work_dir) ==
    SelectSeq(tab, LAMBDA m : ~(/\ Len(m.point) >= Len(work_dir)
                                  /\ \A i \in 1..Len(work_dir) : m.point[i] = work_dir[i]))

C13_ClearStaleIdempotent ==
    /\ clear_stale(clear_stale(hostMounts, WorkDir), WorkDir) =
          clear_stale(hostMounts, WorkDir)
    /\ (Happened("clear_stale") /\ ~Happened("mount_overlay")) =>
          clear_stale(hostMounts, WorkDir) = hostMounts

C13_Witness ==
    /\ Happened("detached_stale")
    /\ ~Happened("mount_overlay")
    /\ Len(hostMounts) = Len(<<ForeignMount, SiblingMount>>)

\* The run went through: the shell was started, the operator left it with
\* status 0, and the exit sequence of the top-level process completed.
RunSucceeded ==
    /\ pc["top"] = "done"
    /\ Happened("exec")
    /\ Happened("shell_exit")
    /\ exitCode["c2"] = "0"
    /\ args.cache => Happened("cache_write_end")

C19_PidfdClosedOnEveryReturn == "pidfd" \notin fds

\* C15: for every image and tag, image_cache_filename on "<image>:<tag>" is the
\* image with every '/' replaced by '_', then '_', the tag and ".tar"; on a
\* reference without ':' the tag is latest (debian:12 gives debian_12.tar,
\* library/foo gives library_foo_latest.tar).
C15_CacheFilenameLaw ==
    call.fn = "image_cache_filename" =>
        /\ call.arg.tagged =>
              call.out = Replace(call.arg.image, "/", "_") \o <<"_">> \o call.arg.tag \o DotTar
        /\ (~call.arg.tagged /\ Find(call.arg.image, ":") = 0) =>
              call.out = Replace(call.arg.image, "/", "_") \o <<"_">> \o Latest \o DotTar

\* The string has a '[' with a ']' somewhere behind it.
HasBracketedGroup(str) ==
    \E i, j \in 1..Len(str) : i < j /\ str[i] = "[" /\ str[j] = "]"

\* C16: parse_namespace_content never crashes; on a string with a bracketed
\* group it returns the integer written between the first '[' and the first
\* ']' ("mnt:[4026]" gives 4026), and it returns an error when '[' is absent,
\* ']' is absent or the text between them is not a number.
C16_ParseNamespaceContent ==
    call.fn = "parse_namespace_content" =>
        LET str == call.arg
            open == Find(str, "[")
            close == Find(str, "]")
            inner == SubSeq(str, open + 1, close - 1)
            number == inner # << >> /\ \A i \in 1..Len(inner) : IsDigit(inner[i])
        IN  /\ (open = 0 \/ close = 0) => call.out.kind = "err"
            /\ HasBracketedGroup(str) => call.out.kind # "panic"
            /\ (open # 0 /\ open < close /\ number) =>
                  call.out = [kind |-> "ok", val |-> DecimalValue(inner)]
            /\ (open # 0 /\ open < close /\ ~number) => call.out.kind = "err"

\* The layer path with its first '/' replaced by ':'.
ReplaceFirstSlash(path) ==
    [i \in 1..Len(path) |-> IF i = Find(path, "/") THEN ":" ELSE path[i]]

\* C17 (as stated): for every layer path blobs/sha256/<hex> the key looked up in
\* LayerSources is sha256:<hex>, and it equals the layer path with its first '/'
\* replaced by ':'.
C17_LayerKeyIsFirstSlashReplaced ==
    call.fn = "layer_key" =>
        /\ call.out = <<"sha256", ":", call.arg>>
        /\ call.out = ReplaceFirstSlash(Blob(call.arg))

\* C17 (amended): for every layer path blobs/sha256/<hex> the key looked up in
\* LayerSources is sha256:<hex>, the path without its first segment and with
\* the '/' that remains replaced by ':'; the path with its first '/' replaced by
\* ':' is blobs:sha256/<hex>, a different string.
C17_LayerKeyTransform ==
    call.fn = "layer_key" =>
        /\ call.out = <<"sha256", ":", call.arg>>
        /\ ReplaceFirstSlash(Blob(call.arg)) = <<"blobs", ":", "sha256", "/", call.arg>>
        /\ call.out # ReplaceFirstSlash(Blob(call.arg))

C17_Witness == call.fn = "layer_key" /\ call.arg = "0f3c"

\* The paths a layer's tar has entries for, and those it has a regular file for.
PathsOf(layer) == {BlobEntries(layer)[i].path : i \in 1..Len(BlobEntries(layer))}

FilesOf(layer) ==
    {BlobEntries(layer)[i].path :
        i \in {j \in 1..Len(BlobEntries(layer)) : BlobEntries(layer)[j].type = "Regular"}}

Preserved(fs) ==
    [p \in DOMAIN fs |->
        CASE fs[p].type = "dir" -> [type |-> "dir"]
          [] fs[p].type = "file" ->
                 [type |-> "file", data |-> fs[p].data, mode |-> fs[p].mode % 512]
          [] fs[p].type = "symlink" ->
                 [type |-> "symlink", to |-> fs[p].target.to, bytes |-> fs[p].target.bytes,
                  utf8 |-> fs[p].target.utf8]]

\* C18: for every tree of regular files, directories and symbolic links,
\* extract_archive applied in an empty directory to the tar the cache writer
\* produced from the tree succeeds and yields the same directories, the same
\* regular files with the same contents and lower 9 mode bits, and the same
\* symbolic links with the same targets.
C18_ArchiveRoundTrip ==
    (call.fn = "round_trip" /\ call.written) =>
        /\ call.out.result = "ok"
        /\ Preserved(call.out.fs) = Preserved(call.arg.tree)

\* C21: a network or stream error at any point of the pull, on creating the
\* pull or on a later item of the progress stream, ends the run in failure, and
\* the image export is not attempted after such an error.
C21_PullErrorsAreFatal ==
    \A i \in 1..Len(events) :
        events[i].e \in {"pull_create_err", "pull_stream_err"} =>
            /\ pc["top"] = "aborted"
            /\ \A j \in (i + 1)..Len(events) : events[j].e # "docker_export"

\* C22: preparing the work directory succeeds whether or not it exists
\* beforehand, the first run on a host included, and leaves the work directory
\* and its children present and empty.
C22_WorkLayoutPrepared ==
    call.fn = "prepare_work_dir" =>
        /\ call.out.result = "ok"
        /\ \A p \in DOMAIN call.out.fs \cup
                     {<<"work">>, <<"work", "extract">>, <<"work", "upper">>} :
               StartsWith(p, <<"work">>) =>
                   /\ p \in {<<"work">>, <<"work", "extract">>, <<"work", "upper">>}
                   /\ IsDir(call.out.fs, p)

\* C23: for a symlink or hardlink entry whose path holds nothing, a regular
\* file, a symlink whose target exists or a dangling symlink, extract_archive
\* succeeds and leaves at the path a symbolic link to the header's link name.
C23_LinkReplacesWhatExists ==
    (/\ call.fn = "extract_link"
     /\ IsDir(call.arg.fs, Parent(call.arg.entry.path))
     /\ ~IsDir(call.arg.fs, call.arg.entry.path)) =>
        /\ call.out.result = "ok"
        /\ call.out.fs = Put(call.arg.fs, call.arg.entry.path,
                             [type |-> "symlink", target |-> call.arg.entry.link])

\* The image a reference denotes: its name and its tag, latest without one.
Denoted(r) == <<r.image, IF r.tagged THEN r.tag ELSE Latest>>

\* C25: two references that denote different images (different name or
\* different tag) never have the same cache filename.
C25_CacheKeyInjective ==
    call.fn = "image_cache_filename" =>
        \A r \in [image : ImageNames, tagged : BOOLEAN, tag : Tags] :
            Denoted(r) # Denoted(call.arg) =>
                image_cache_filename(Reference(r)) # call.out

\* C26: when the check of the layer at index k fails (blob missing, no
\* LayerSources entry, or a media type other than an image layer), every earlier
\* layer passed its check and is fully extracted in the destination directory,
\* and nothing of layer k or of a later layer has been written there.
C26_LayerCheckedBeforeItsExtraction ==
    (/\ call.fn = "export_overlay_image"
     /\ call.out.result \in {"layer blob not found", "layer info not found",
                             "unsupported layer type"}) =>
        LET m == call.arg.manifest[1]
            k == call.out.extracted + 1
            out == call.out
            Sound(layer) ==
                /\ layer \in call.arg.blobs
                /\ ReplaceSlashes(AfterFirstSlash(layer)) \in DOMAIN m.LayerSources
                /\ m.LayerSources[ReplaceSlashes(AfterFirstSlash(layer))] = TarLayer
        IN  /\ k \in 1..Len(m.Layers)
            /\ ~Sound(m.Layers[k])
            /\ \A j \in 1..(k - 1) : Sound(m.Layers[j])
            /\ DOMAIN out.fs = UNION {PathsOf(m.Layers[j]) : j \in 1..(k - 1)}
            /\ \A p \in DOMAIN out.fs :
                   out.fs[p].type = "file" =>
                       LET last == CHOOSE j \in 1..(k - 1) :
                                       /\ p \in FilesOf(m.Layers[j])
                                       /\ \A i \in (j + 1)..(k - 1) :
                                              p \notin FilesOf(m.Layers[i])
                           hex == m.Layers[last]
                       IN  out.fs[p].data = hex[Len(hex)]

\* Layers a and then b, b without a LayerSources entry: the call fails at b with
\* a extracted, /etc/passwd as a wrote it and nothing of b in the directory.
C26_Witness ==
    /\ call.fn = "export_overlay_image"
    /\ call.out.result = "layer info not found"
    /\ call.arg.manifest[1].Layers = <<Blob("a"), Blob("b")>>
    /\ call.out.extracted = 1
    /\ call.out.fs[<<"etc", "passwd">>].data = "a"
    /\ <<"etc", "hosts">> \notin DOMAIN call.out.fs

\* C24: reading the exported tar, the manifest used is that of the regular file
\* manifest.json at the tar root and of no other entry; a regular file under
\* blobs/sha256/ is buffered under its entry path; every other regular file, one
\* named manifest.json in a subdirectory included, is written under tmp_dir.
C24_OnlyRootManifestParsed ==
    call.fn = "read_image_tar" =>
        LET tar == call.arg
            out == call.out
            files == {i \in 1..Len(tar) : tar[i].type = "Regular"}
            roots == {i \in files : tar[i].path = <<"manifest.json">>}
            blobs == {i \in files : /\ Len(tar[i].path) > 2
                                    /\ SubSeq(tar[i].path, 1, 2) = <<"blobs", "sha256">>}
        IN  /\ out.result = "ok"
            /\ out.manifest = IF roots = {} THEN << >>
                              ELSE tar[CHOOSE i \in roots : TRUE].data.value
            /\ \A i \in blobs :
                   tar[i].path \in DOMAIN out.blob /\ out.blob[tar[i].path] = tar[i].data
            /\ \A i \in files \ (roots \cup blobs) :
                   /\ tar[i].path \in DOMAIN out.tmp
                   /\ out.tmp[tar[i].path].type = "file"
                   /\ out.tmp[tar[i].path].data = tar[i].data

====
